---- MODULE Spec2Model ----
(***************************************************************************)
(* News-Scraper: the per-article pipeline (gate, fetch, classify, rewrite, *)
(* persist, index, notify) of the lambda handlers, over the DynamoDB table *)
(* of model.py and the Pinecone namespace of utils.py.                     *)
(*                                                                         *)
(* Strings are sequences of one-character strings, so that str.split() is  *)
(* computed and not assumed.  A dict is a function whose domain is its set *)
(* of keys, so that dict.get(key, default) and dict.update() are computed. *)
(***************************************************************************)
EXTENDS Integers, Sequences, FiniteSets, TLC

VARIABLES
    table,        \* DynamoDB table "news_articles": the set of stored items
    clock,        \* number of put_item requests so far (datetime.now at insert)
    call,         \* the last DynamoDB method call: [op, arg, ret, log]
    index,        \* Pinecone namespace: the set of upserted vectors
    handler,      \* the lambda_handler variant of the running invocation
    budget,       \* candidates the listings may still yield
    pc,           \* control position of the running invocation
    srcIdx,       \* position of the running scraper in the handler's sequence
    cands,        \* the running scraper's candidate URLs
    candPos,      \* position of the current candidate in cands
    loc,          \* the local variables of the current candidate's processing
    related,      \* the running scraper's list of related articles
    all_related,  \* the handler's all_related_articles
    posted,       \* the webhook POSTs of the running invocation, in order
    status,       \* statusCode returned by the handler (0 while running)
    cur,          \* history: what was done for the current candidate
    inv,          \* history: what was done in the running invocation
    origin,       \* history: the rewrite result each stored item was built from
    racers,       \* two runs that process one URL at the same time
    pager         \* the listing-page loop of a paginated scraper's run

storeVars == <<table, clock, call>>
pipeVars == <<index, handler, budget, pc, srcIdx, cands, candPos, loc,
              related, all_related, posted, status, cur, inv, origin>>
vars == <<storeVars, pipeVars, racers, pager>>

(***************************** bounds **************************************)
MaxLen == 2          \* longest enumerated content given to a direct insert call
MaxInserts == 2      \* direct insert calls explored by the store specification

(***************************** strings *************************************)
Empty == <<>>
Whitespace == {" ", "\n", "\t"}
Alphabet == {"a", " "}
URLs == {"u1", "u2"}

RECURSIVE StringsUpTo(_)
StringsUpTo(n) ==
    IF n = 0 THEN {Empty}
    ELSE LET shorter == StringsUpTo(n - 1)
         IN  shorter \cup {Append(s, c) : s \in {t \in shorter : Len(t) = n - 1},
                                          c \in Alphabet}

\* str.split() with no separator: the maximal runs of non-whitespace
\* characters; leading, trailing and repeated whitespace yield no token.
RECURSIVE SplitFrom(_, _, _)
SplitFrom(s, i, word) ==
    IF i > Len(s)
    THEN IF word = Empty THEN <<>> ELSE <<word>>
    ELSE IF s[i] \in Whitespace
         THEN IF word = Empty
              THEN SplitFrom(s, i + 1, Empty)
              ELSE <<word>> \o SplitFrom(s, i + 1, Empty)
         ELSE SplitFrom(s, i + 1, Append(word, s[i]))

split(s) == SplitFrom(s, 1, Empty)

\* len(content.split(" ")): what splitting on the single space would count
WordCountBySpace(content) ==
    Cardinality({i \in 1..Len(content) : content[i] = " "}) + 1

\* model.py:57  len(article.get("content", "").split())
WordCount(content) == Len(split(content))

(***************************** dicts ***************************************)
\* dict.get(key, default)
Get(d, key, default) == IF key \in DOMAIN d THEN d[key] ELSE default

\* dict.update(other)
Update(d, other) ==
    [k \in DOMAIN d \cup DOMAIN other |-> IF k \in DOMAIN other THEN other[k] ELSE d[k]]

(***************************** DynamoDB ************************************)
Has(tbl, url) == \E item \in tbl : item.news_url = url

ItemOf(tbl, url) == CHOOSE item \in tbl : item.news_url = url

\* The Item built by insert: wordcount and timestamp are computed here and
\* never taken from the caller.
Item(article, now) ==
    [news_url                 |-> article["news_url"],
     title                    |-> Get(article, "title", Empty),
     author                   |-> Get(article, "author", Empty),
     posted_time              |-> Get(article, "posted_time", Empty),
     content                  |-> Get(article, "content", Empty),
     call_to_action           |-> Get(article, "call_to_action", Empty),
     is_related               |-> Get(article, "is_related", FALSE),
     title_seo_optimized      |-> Get(article, "title_seo_optimized", Empty),
     one_sentence_description |-> Get(article, "one_sentence_description", Empty),
     wordcount                |-> WordCount(Get(article, "content", Empty)),
     timestamp                |-> now]

\* What a put_item request can end in: the service's own failure ("error", a
\* ClientError other than the condition's) is the environment's choice.
PutFaults == {"none", "error"}

\* put_item without a ConditionExpression: the item replaces the stored one.
PutItemUnconditional(tbl, item, fault) ==
    IF fault = "error"
    THEN [table |-> tbl, err |-> "ClientError"]
    ELSE [table |-> {i \in tbl : i.news_url # item.news_url} \cup {item},
          err   |-> "none"]

\* put_item(Item=..., ConditionExpression="attribute_not_exists(news_url)")
PutItem(tbl, item, fault) ==
    IF fault = "error"
    THEN [table |-> tbl, err |-> "ClientError"]
    ELSE IF Has(tbl, item.news_url)
         THEN [table |-> tbl, err |-> "ConditionalCheckFailedException"]
         ELSE [table |-> tbl \cup {item}, err |-> "none"]

\* DynamoDB.insert: True when the item was put, False on any ClientError;
\* log is the branch of the except clause that was logged.
insert(tbl, article, now, fault) ==
    LET r == PutItem(tbl, Item(article, now), fault)
    IN  [table |-> r.table,
         ret   |-> (r.err = "none"),
         log   |-> IF r.err = "none" THEN "put"
                   ELSE IF r.err = "ConditionalCheckFailedException" THEN "exists"
                   ELSE "error"]

\* What a get_item request can end in.
GetFaults == {"none", "error"}

\* A lookup that answers True when get_item fails.
QueryFailsClosed(tbl, url, fault) ==
    IF fault = "error" THEN TRUE ELSE Has(tbl, url)

\* DynamoDB.query: True when an item with this key exists; a ClientError is
\* logged and answered False.
query(tbl, url, fault) ==
    IF fault = "error" THEN FALSE ELSE Has(tbl, url)


(***************************** Pinecone ************************************)
\* page_id = f"pg-{pid}"
PageId(pid) == <<"pg-", pid>>

Vector(pid, title, content, posted_time) ==
    [id       |-> PageId(pid),
     metadata |-> [title |-> title, content |-> content, posted_time |-> posted_time]]

\* pc_index.upsert: a vector with the same id is overwritten.
upsert_into_pinecone_index(idx, pid, title, content, posted_time) ==
    {v \in idx : v.id # PageId(pid)} \cup {Vector(pid, title, content, posted_time)}

\* Similarity scores, in hundredths.
ScoreThreshold == 70
Scores == {65, 70, 75}

NoMetadata == [title |-> Empty, content |-> Empty, posted_time |-> Empty]

\* The comparison of get_similar_news taken as "at least the threshold".
ScoreReaches(score) == score >= ScoreThreshold

\* get_similar_news: result["score"] > 0.7
ScoreExceeds(score) == score > ScoreThreshold

\* get_similar_news: the metadata of the top-1 match when its score exceeds
\* the threshold, else the empty dict.  matches is the query's response.
get_similar_news(matches) ==
    IF matches # <<>> /\ ScoreExceeds(matches[1].score)
    THEN [found |-> TRUE, metadata |-> matches[1].metadata]
    ELSE [found |-> FALSE, metadata |-> NoMetadata]

\* The answers an LLM JSON call can give: "other" is any answer that is
\* neither "yes" nor "no"; "raise" is a failed call or a response that is not
\* the JSON asked for.
Answers == {"yes", "no", "other", "raise"}

\* An openai_chat whose failures are swallowed.
NeverRaises(answer) == FALSE

\* openai_chat logs any exception and re-raises it; answer["answer"] raises on
\* a response without the key.
Raises(answer) == answer = "raise"

\* check_if_related_to_car_accidents: answer["answer"] == "yes"
check_if_related_to_car_accidents(answer) == (answer = "yes")

\* The novelty sub-check run whatever the relevance sub-check returned.
NoveltyAlways(relevant, pc_index) == pc_index

\* check_if_is_new_car_accident_related_news, line 282 and 284: the novelty
\* sub-check runs only for a relevant article and a truthy pc_index.
NoveltyNeeded(relevant, pc_index) == relevant /\ pc_index

\* check_if_is_new_car_accident_related_news: ok as it is returned.
ClassifierResult(relevant, pc_index, exists) ==
    LET ok0 == FALSE
        ok1 == IF relevant THEN TRUE ELSE ok0
        ok2 == IF relevant /\ pc_index /\ exists THEN FALSE ELSE ok1
    IN  ok2

(***************************** scrapers ************************************)
HandlerSources ==
    [lf2  |-> <<"KTLA", "KSBY", "NBC">>,
     lf4  |-> <<"CBS8", "EastBay", "Fox", "NBCBayArea">>,
     ns51 |-> <<"ABC30", "JOHNYELAW">>,
     ns52 |-> <<"MERCURYNEWS", "USACCIDENTLAWYER">>,
     ns6  |-> <<"ABC7", "CBSNews", "NDTV">>]

Handlers == DOMAIN HandlerSources

\* lambda_function-2.py wraps no scraper run in its own try.
PerSourceTry == Handlers \ {"lf2"}

\* Scrapers whose per-candidate body catches Exception.
PerCandidateTry == {"CBS8", "NBCBayArea", "ABC7", "CBSNews", "NDTV"}

\* Scrapers that return the article from the per-candidate method, the
\* caller appending it after insert and upsert.
ReturnsArticle == {"ABC7", "CBSNews", "NDTV"}

\* Scrapers of lambda_function-4.py: "call_to_action": "" on acceptance.
DropsCallToAction == {"CBS8", "EastBay", "Fox", "NBCBayArea"}

\* Scrapers that call generate_title_again after the rewrite.
Retitles ==
    {"KTLA", "KSBY", "NBC", "CBS8", "EastBay", "Fox", "NBCBayArea", "ABC30",
     "JOHNYELAW", "MERCURYNEWS", "USACCIDENTLAWYER", "ABC7", "CBSNews"}

\* Scrapers with a single listing whose parse drops repeated URLs.
UniqueListing == {"ABC30", "JOHNYELAW", "MERCURYNEWS", "USACCIDENTLAWYER", "CBSNews"}

\* Scrapers whose detail fetch goes through get_page_content_using_ScraperAPI
\* or checks no status: a failed fetch leaves empty content and goes on.
FetchFailGivesEmpty ==
    {"KTLA", "ABC30", "JOHNYELAW", "MERCURYNEWS", "USACCIDENTLAWYER"}

(***************************** data ****************************************)
ListTitle == <<"T">>
Author == <<"A">>
PostedTime == <<"P">>
RawContent == <<"r", " ", "w">>
ErrorText == <<"E">>
NewTitle == <<"N">>

NoRewrite == [content |-> Empty, call_to_action |-> Empty,
              title_seo_optimized |-> Empty, one_sentence_description |-> Empty]

\* What the rewrite LLM can return for the four keys.
RewriteResults ==
    {[content |-> <<"x", " ", "y">>, call_to_action |-> <<"c">>,
      title_seo_optimized |-> <<"s">>, one_sentence_description |-> <<"d">>],
     [content |-> <<"x">>, call_to_action |-> Empty,
      title_seo_optimized |-> <<"s">>, one_sentence_description |-> <<"d">>]}

AllNonEmpty(rew) ==
    /\ rew.content # Empty
    /\ rew.call_to_action # Empty
    /\ rew.title_seo_optimized # Empty
    /\ rew.one_sentence_description # Empty

FetchOutcomes == {"ok", "ok_empty", "http_error", "network_error"}

FetchFailures == {"http_error", "network_error"}

\* What the detail fetch of scraper s does on each outcome: go on with a
\* content, skip the candidate, or raise.
FetchResult(s, outcome) ==
    CASE outcome = "ok" -> [kind |-> "content", content |-> RawContent]
      [] outcome = "ok_empty" ->
            IF s \in {"KSBY", "Fox"}
            THEN [kind |-> "skip", content |-> Empty]
            ELSE [kind |-> "content", content |-> Empty]
      [] outcome = "http_error" ->
            IF s \in FetchFailGivesEmpty \cup {"NBC", "CBSNews"}
            THEN [kind |-> "content", content |-> Empty]
            ELSE IF s = "KSBY"
            THEN [kind |-> "content", content |-> ErrorText]
            ELSE IF s = "NBCBayArea"
            THEN [kind |-> "raise", content |-> Empty]
            ELSE [kind |-> "skip", content |-> Empty]
      [] outcome = "network_error" ->
            IF s \in FetchFailGivesEmpty
            THEN [kind |-> "content", content |-> Empty]
            ELSE IF s = "KSBY"
            THEN [kind |-> "content", content |-> ErrorText]
            ELSE IF s \in {"CBS8", "EastBay", "Fox"}
            THEN [kind |-> "skip", content |-> Empty]
            ELSE [kind |-> "raise", content |-> Empty]

(***************************** the article *********************************)
\* An else branch that empties the three generated fields and keeps the
\* fetched content.
RejectedKeepsContent ==
    [call_to_action |-> Empty, title_seo_optimized |-> Empty,
     one_sentence_description |-> Empty]

\* The else branch of the scrapers: the four AI fields of a rejected article.
RejectedFields ==
    [content |-> Empty, call_to_action |-> Empty,
     title_seo_optimized |-> Empty, one_sentence_description |-> Empty]

\* article.update({...}) of the accepted branch of scraper s.
AcceptedFields(s, l) ==
    [title                    |-> l.title,
     content                  |-> l.rew.content,
     call_to_action           |-> IF s \in DropsCallToAction THEN Empty
                                  ELSE l.rew.call_to_action,
     title_seo_optimized      |-> l.rew.title_seo_optimized,
     one_sentence_description |-> l.rew.one_sentence_description]

\* Scrapers that build the article dict after the classifier, with the four
\* AI fields empty, and have no else branch.
BuildsEmptyFirst == {"KSBY", "NBC", "CBS8", "EastBay", "Fox", "NBCBayArea"}

\* The dict of scraper s handed to db.insert, for the locals l.
Article(s, l, is_related) ==
    LET parsed == [title |-> l.title0, news_url |-> l.news_url, author |-> Author,
                   posted_time |-> l.posted_time, content |-> l.content,
                   is_related |-> is_related]
        blank  == [content |-> Empty, title_seo_optimized |-> Empty,
                   call_to_action |-> Empty, one_sentence_description |-> Empty]
        base   == IF s \in BuildsEmptyFirst THEN Update(parsed, blank) ELSE parsed
    IN  IF is_related
        THEN Update(base, AcceptedFields(s, l))
        ELSE IF s \in BuildsEmptyFirst
        THEN base
        ELSE Update(base, RejectedFields)

\* An append that does not look at is_related.
CollectAlways(is_related) == TRUE

\* An accepted branch that goes to insert without the rewrite.
RewriteNever(is_related) == FALSE

\* A rewrite made whatever the classifier returned.
RewriteAlways(is_related) == TRUE

\* if is_related: generate_content_using_AI(title, content)
ShouldRewrite(is_related) == is_related

\* if is_related: related_articles.append(article)
ShouldCollect(is_related) == is_related

\* A scraper that indexes nothing.
IndexNever(is_related) == FALSE

\* An upsert that does not look at is_related.
IndexAlways(is_related) == TRUE

\* if is_related: upsert_into_pinecone_index(...)
ShouldIndex(is_related) == is_related

\* A loop body that does not look at the lookup's answer.
GateAlwaysPasses(found) == TRUE

\* if self.db.query(news_url): continue
GatePasses(found) == ~found

(***************************** history *************************************)
CallNames == {"query", "fetch", "relevance", "embedding", "vquery", "samecheck",
              "rewrite", "retitle", "insert", "upsert"}

NoCalls == [c \in CallNames |-> 0]

Called(h, names) == [c \in CallNames |-> IF c \in names THEN h.calls[c] + 1 ELSE h.calls[c]]

NoCur ==
    [url |-> "", scraper |-> "", present |-> FALSE, gateErr |-> FALSE,
     found |-> FALSE, calls |-> NoCalls, relevant |-> "none", matched |-> "none",
     score |-> 0,
     same |-> "none", verdict |-> "none", rew |-> NoRewrite, insertRet |-> "none",
     collected |-> FALSE, outcome |-> "none", answer |-> "none", pos |-> 0,
     left |-> 0, escaped |-> FALSE, src |-> 0, allBefore |-> <<>>, fetched |-> "none"]

NoInv ==
    [fault |-> FALSE, storeFault |-> FALSE, accepted |-> {}, rejected |-> {},
     inserted |-> [u \in URLs |-> 0], upserted |-> [u \in URLs |-> 0],
     lists |-> <<>>, unstored |-> FALSE,
     rerun |-> FALSE, prevLists |-> <<>>, prevStored |-> FALSE]

NoOrigin == NoRewrite

NoLoc == [news_url |-> "", title0 |-> Empty, title |-> Empty, content |-> Empty,
          posted_time |-> Empty, rew |-> NoRewrite]

NoCall == [op |-> "none", arg |-> Empty, ret |-> FALSE, log |-> "none"]

(***************************** bounds of the pipeline **********************)
MaxCands == 1        \* candidates the listings yield, over all runs of a handler
MaxBatch == 2        \* the same, where one listing is to yield several candidates

(***************************** control *************************************)
Sources == HandlerSources[handler]
Scraper == Sources[srcIdx]

\* all_related_articles after scraper s returned rel: lambda_function-2.py
\* concatenates ksby + ktla + nbc, the other handlers extend in run order.
Combine(s, all, rel) == IF s = "KSBY" THEN rel \o all ELSE all \o rel

\* The scraper's run returns rel to the handler.
SourceReturns(rel) ==
    [pc          |-> IF srcIdx < Len(Sources) THEN "discover" ELSE "notify",
     srcIdx      |-> srcIdx + 1,
     cands       |-> <<>>,
     candPos     |-> 0,
     related     |-> <<>>,
     all_related |-> Combine(Scraper, all_related, rel),
     status      |-> status]

\* The current candidate is finished and the scraper's loop goes on.
CandidateDone(rel) ==
    IF candPos < Len(cands)
    THEN [pc |-> "gate", srcIdx |-> srcIdx, cands |-> cands, candPos |-> candPos + 1,
          related |-> rel, all_related |-> all_related, status |-> status]
    ELSE SourceReturns(rel)

\* A loop body that makes the failed call again.
RetryCall(rel) ==
    [pc |-> pc, srcIdx |-> srcIdx, cands |-> cands, candPos |-> candPos,
     related |-> rel, all_related |-> all_related, status |-> status]

\* An exception raised while the current candidate is processed: caught by
\* the scraper's per-candidate try, else by the handler's try around the run
\* (the scraper's articles are lost), else by the handler's outermost try.
Raised(rel) ==
    IF Scraper \in PerCandidateTry
    THEN CandidateDone(rel)
    ELSE IF handler \in PerSourceTry
    THEN SourceReturns(<<>>)
    ELSE [pc |-> "done", srcIdx |-> srcIdx, cands |-> <<>>, candPos |-> 0,
          related |-> <<>>, all_related |-> all_related, status |-> 500]

\* History of a raise: whether it escaped the scraper's run, from which source,
\* and the handler's list at that moment.
Erred(c) ==
    [c EXCEPT !.outcome = "ERROR", !.escaped = (Scraper \notin PerCandidateTry),
              !.src = srcIdx, !.allBefore = all_related]

Goto(label) ==
    [pc |-> label, srcIdx |-> srcIdx, cands |-> cands, candPos |-> candPos,
     related |-> related, all_related |-> all_related, status |-> status]

SetCtl(c) ==
    /\ pc' = c.pc
    /\ srcIdx' = c.srcIdx
    /\ cands' = c.cands
    /\ candPos' = c.candPos
    /\ related' = c.related
    /\ all_related' = c.all_related
    /\ status' = c.status

\* The candidate lists a listing of scraper s can yield, within the budget.
RECURSIVE SeqsUpTo(_, _)
SeqsUpTo(S, n) ==
    IF n = 0 THEN {<<>>}
    ELSE LET shorter == SeqsUpTo(S, n - 1)
         IN  shorter \cup {Append(q, x) : q \in {t \in shorter : Len(t) = n - 1}, x \in S}

NoRepeat(q) == \A i, j \in 1..Len(q) : i # j => q[i] # q[j]

CandLists(s, n) ==
    {q \in SeqsUpTo(URLs, n) : s \in UniqueListing => NoRepeat(q)}

(***************************** actions *************************************)
\* The article an earlier invocation of lambda_function-2.py stored and
\* indexed: KTLA accepted u1 and every call succeeded.
PriorLocals ==
    [NoLoc EXCEPT !.news_url = "u1", !.title0 = ListTitle, !.title = NewTitle,
                  !.content = RawContent, !.posted_time = PostedTime,
                  !.rew = CHOOSE r \in RewriteResults : AllNonEmpty(r)]

PriorArticle == Article("KTLA", PriorLocals, TRUE)

\* The store as the earlier invocations left it: still empty, or holding the
\* prior article; the listings are to yield n candidates.
InitWith(n) ==
    /\ \E prior \in BOOLEAN :
          IF prior
          THEN /\ table = insert({}, PriorArticle, 1, "none").table
               /\ clock = 1
               /\ index = upsert_into_pinecone_index(
                              {}, PriorArticle["news_url"], PriorArticle["title"],
                              PriorArticle["content"], PriorArticle["posted_time"])
               /\ origin = [u \in URLs |-> IF u = PriorArticle["news_url"]
                                            THEN PriorLocals.rew ELSE NoOrigin]
          ELSE /\ table = {}
               /\ clock = 0
               /\ index = {}
               /\ origin = [u \in URLs |-> NoOrigin]
    /\ call = NoCall
    /\ handler = "lf2"
    /\ budget = n
    /\ pc = "idle"
    /\ srcIdx = 0
    /\ cands = <<>>
    /\ candPos = 0
    /\ loc = NoLoc
    /\ related = <<>>
    /\ all_related = <<>>
    /\ posted = <<>>
    /\ status = 0
    /\ cur = NoCur
    /\ inv = NoInv

Racers == {1, 2}

NoRacer == [pc |-> "idle", article |-> PriorArticle, sawAbsent |-> FALSE,
            early |-> FALSE, ret |-> "none", err |-> FALSE, at |-> 0]

NoPager == [scraper |-> "", pc |-> "idle", page |-> 0, total_pages |-> 0,
            items |-> 0, requested |-> 0, processed |-> 0, failed |-> FALSE]

Init ==
    /\ InitWith(MaxCands)
    /\ racers = [p \in Racers |-> NoRacer]
    /\ pager = NoPager

\* lambda_handler is invoked: db and pc_index are set up.
Invoke ==
    /\ pc \in {"idle", "done"}
    /\ budget > 0
    /\ \E h \in Handlers :
          /\ handler' = h
          /\ inv' = IF /\ pc = "done"
                       /\ ~inv.fault
                       /\ h = handler
                       /\ \E i \in 1..Len(inv.lists) : inv.lists[i] # <<>>
                    THEN [NoInv EXCEPT !.rerun = TRUE, !.prevLists = inv.lists,
                                       !.prevStored = ~inv.unstored]
                    ELSE NoInv
    /\ pc' = "discover"
    /\ srcIdx' = 1
    /\ cands' = <<>>
    /\ candPos' = 0
    /\ loc' = NoLoc
    /\ related' = <<>>
    /\ all_related' = <<>>
    /\ posted' = <<>>
    /\ status' = 0
    /\ cur' = NoCur
    /\ UNCHANGED <<pager, racers, storeVars, index, budget, origin>>

\* The scraper fetches and parses its listing.
Discover ==
    /\ pc = "discover"
    /\ \E list \in CandLists(Scraper, budget) :
          /\ budget' = budget - Len(list)
          /\ inv' = IF inv.rerun /\ inv.prevLists[srcIdx] = list
                    THEN [inv EXCEPT !.lists = Append(@, list)]
                    ELSE [inv EXCEPT !.lists = Append(@, list), !.rerun = FALSE,
                                     !.prevLists = <<>>, !.prevStored = FALSE]
          /\ IF list = <<>>
             THEN SetCtl(SourceReturns(<<>>))
             ELSE SetCtl([Goto("gate") EXCEPT !.cands = list, !.candPos = 1])
    /\ UNCHANGED <<pager, racers, storeVars, index, handler, loc, posted, cur, origin>>

\* The deduplication gate: db.query(news_url) before anything else.
Gate ==
    /\ pc = "gate"
    /\ \E fault \in GetFaults :
          LET u     == cands[candPos]
              found == query(table, u, fault)
              c     == [NoCur EXCEPT !.url = u, !.scraper = Scraper,
                                     !.present = Has(table, u),
                                     !.gateErr = (fault = "error"),
                                     !.found = found,
                                     !.pos = candPos,
                                     !.left = Len(cands) - candPos,
                                     !.calls = [NoCalls EXCEPT !["query"] = 1]]
          IN  /\ call' = [op |-> "query", arg |-> [news_url |-> u], ret |-> found,
                          log |-> IF fault = "error" THEN "error" ELSE "none"]
              /\ loc' = [NoLoc EXCEPT !.news_url = u, !.title0 = ListTitle,
                                      !.title = ListTitle, !.posted_time = PostedTime]
              /\ inv' = [inv EXCEPT !.fault = @ \/ fault = "error",
                                    !.storeFault = @ \/ fault = "error"]
              /\ IF GatePasses(found)
                 THEN /\ cur' = [c EXCEPT !.outcome = "running"]
                      /\ SetCtl(Goto("fetch"))
                 ELSE /\ cur' = [c EXCEPT !.outcome = "SKIPPED_DUPLICATE_URL"]
                      /\ SetCtl(CandidateDone(related))
    /\ UNCHANGED <<pager, racers, table, clock, index, handler, budget, posted, origin>>

\* The detail page is fetched and parsed.
Fetch ==
    /\ pc = "fetch"
    /\ \E outcome \in FetchOutcomes :
          LET r == FetchResult(Scraper, outcome)
              c == [cur EXCEPT !.calls = Called(cur, {"fetch"}),
                               !.fetched = IF outcome \in FetchFailures THEN "failed"
                                           ELSE outcome]
          IN  /\ inv' = [inv EXCEPT !.fault = @ \/ outcome \in FetchFailures,
                                    !.unstored = @ \/ r.kind = "skip"]
              /\ CASE r.kind = "content" ->
                        /\ loc' = [loc EXCEPT !.content = r.content]
                        /\ cur' = c
                        /\ SetCtl(Goto("relevance"))
                   [] r.kind = "skip" ->
                        /\ loc' = loc
                        /\ cur' = [c EXCEPT !.outcome = "SKIPPED_FETCH"]
                        /\ SetCtl(CandidateDone(related))
                   [] r.kind = "raise" ->
                        /\ loc' = loc
                        /\ cur' = Erred(c)
                        /\ SetCtl(Raised(related))
    /\ UNCHANGED <<pager, racers, storeVars, index, handler, budget, posted, origin>>

\* The classifier returned ok for the current candidate: the scraper takes
\* the accepted branch (rewrite) or the rejected one (straight to insert).
Classified(c, ok) ==
    /\ cur' = [c EXCEPT !.verdict = IF ok THEN "accept" ELSE "reject",
                        !.collected = ~ok /\ Scraper \notin ReturnsArticle
                                          /\ ShouldCollect(FALSE)]
    /\ inv' = [inv EXCEPT !.accepted = IF ok /\ ~c.present THEN @ \cup {c.url} ELSE @,
                          !.rejected = IF ok THEN @ ELSE @ \cup {c.url}]
    /\ loc' = loc
    /\ IF ShouldRewrite(ok)
       THEN SetCtl(Goto("rewrite"))
       ELSE SetCtl([Goto("insert") EXCEPT
                !.related = IF Scraper \notin ReturnsArticle /\ ShouldCollect(FALSE)
                            THEN Append(related, Article(Scraper, loc, FALSE))
                            ELSE related])

\* An external call of the current candidate's processing raised.
Failed(c) ==
    /\ cur' = Erred(c)
    /\ inv' = [inv EXCEPT !.fault = TRUE]
    /\ loc' = loc
    /\ SetCtl(Raised(related))

\* check_if_related_to_car_accidents: the relevance LLM call.
Relevance ==
    /\ pc = "relevance"
    /\ \E answer \in Answers :
          LET c0 == [cur EXCEPT !.calls = Called(cur, {"relevance"}),
                                !.answer = answer]
          IN  IF Raises(answer)
              THEN Failed(c0)
              ELSE LET relevant == check_if_related_to_car_accidents(answer)
                       c == [c0 EXCEPT !.relevant = IF relevant THEN "yes" ELSE "no"]
                   IN  IF NoveltyNeeded(relevant, TRUE)
                       THEN /\ cur' = c
                            /\ inv' = inv
                            /\ loc' = loc
                            /\ SetCtl(Goto("similar"))
                       ELSE Classified(c, ClassifierResult(relevant, TRUE, FALSE))
    /\ UNCHANGED <<pager, racers, storeVars, index, handler, budget, posted, origin>>

\* The responses pc_index.query(top_k=1) can give over the namespace.
QueryResponses(idx) ==
    {<<>>} \cup {<<[score |-> sc, metadata |-> v.metadata]>> : sc \in Scores, v \in idx}

\* get_similar_news: the embedding call and the vector query.
Similar ==
    /\ pc = "similar"
    /\ \E response \in QueryResponses(index), raises \in BOOLEAN :
          LET c0 == [cur EXCEPT !.calls = Called(cur, {"embedding", "vquery"})]
          IN  IF raises
              THEN Failed([c0 EXCEPT !.matched = "failed"])
              ELSE LET sim == get_similar_news(response)
                       c == [c0 EXCEPT !.matched = IF response # <<>> THEN "yes" ELSE "no",
                                       !.score = IF response # <<>>
                                                 THEN response[1].score ELSE 0]
                   IN  IF sim.found
                       THEN /\ cur' = c
                            /\ inv' = inv
                            /\ loc' = loc
                            /\ SetCtl(Goto("samecheck"))
                       ELSE Classified(c, ClassifierResult(c.relevant = "yes", TRUE, FALSE))
    /\ UNCHANGED <<pager, racers, storeVars, index, handler, budget, posted, origin>>

\* check_if_news_already_exists: the duplicate-check LLM call.
SameCheck ==
    /\ pc = "samecheck"
    /\ \E answer \in Answers :
          LET c0 == [cur EXCEPT !.calls = Called(cur, {"samecheck"})]
          IN  IF Raises(answer)
              THEN Failed(c0)
              ELSE LET c == [c0 EXCEPT !.same = answer]
                   IN  Classified(c, ClassifierResult(c.relevant = "yes", TRUE, answer = "yes"))
    /\ UNCHANGED <<pager, racers, storeVars, index, handler, budget, posted, origin>>

\* The accepted branch is complete: the article is appended to the scraper's
\* list where the scraper appends before insert.
Accepted(c, l) ==
    /\ cur' = [c EXCEPT !.collected = Scraper \notin ReturnsArticle /\ ShouldCollect(TRUE)]
    /\ loc' = l
    /\ inv' = inv
    /\ SetCtl([Goto("insert") EXCEPT
          !.related = IF Scraper \notin ReturnsArticle /\ ShouldCollect(TRUE)
                      THEN Append(related, Article(Scraper, l, TRUE))
                      ELSE related])

\* generate_content_using_AI: the rewrite LLM call.
Rewrite ==
    /\ pc = "rewrite"
    /\ \E result \in RewriteResults \cup {NoRewrite} :
          LET c0 == [cur EXCEPT !.calls = Called(cur, {"rewrite"})]
          IN  IF result = NoRewrite
              THEN Failed(c0)
              ELSE LET c == [c0 EXCEPT !.rew = result]
                       l == [loc EXCEPT !.rew = result]
                   IN  IF Scraper \in Retitles
                       THEN /\ cur' = c
                            /\ loc' = l
                            /\ inv' = inv
                            /\ SetCtl(Goto("retitle"))
                       ELSE Accepted(c, l)
    /\ UNCHANGED <<pager, racers, storeVars, index, handler, budget, posted, origin>>

\* generate_title_again: the retitle LLM call.
Retitle ==
    /\ pc = "retitle"
    /\ \E ok \in BOOLEAN :
          LET c == [cur EXCEPT !.calls = Called(cur, {"retitle"})]
          IN  IF ok
              THEN Accepted(c, [loc EXCEPT !.title = NewTitle])
              ELSE Failed(c)
    /\ UNCHANGED <<pager, racers, storeVars, index, handler, budget, posted, origin>>

\* self.db.insert(article), its result ignored.
Insert ==
    /\ pc = "insert"
    /\ \E fault \in PutFaults :
          LET accepted == (cur.verdict = "accept")
              a == Article(Scraper, loc, accepted)
              r == insert(table, a, clock + 1, fault)
              u == cur.url
              c == [cur EXCEPT !.calls = Called(cur, {"insert"}),
                               !.insertRet = IF r.ret THEN "true" ELSE "false"]
          IN  /\ table' = r.table
              /\ clock' = clock + 1
              /\ call' = [op |-> "insert", arg |-> a, ret |-> r.ret, log |-> r.log]
              /\ origin' = IF r.ret
                           THEN [origin EXCEPT ![u] = loc.rew]
                           ELSE origin
              /\ inv' = [inv EXCEPT !.inserted[u] = IF r.ret THEN @ + 1 ELSE @,
                                    !.fault = @ \/ ~r.ret,
                                    !.storeFault = @ \/ ~r.ret]
              /\ IF ShouldIndex(accepted)
                 THEN /\ cur' = c
                      /\ SetCtl(Goto("upsert"))
                 ELSE /\ cur' = [c EXCEPT !.outcome = "SKIPPED_NOT_RELATED",
                                          !.collected = @ \/ (Scraper \in ReturnsArticle
                                                              /\ ShouldCollect(accepted))]
                      /\ SetCtl(CandidateDone(
                            IF Scraper \in ReturnsArticle /\ ShouldCollect(accepted)
                            THEN Append(related, a) ELSE related))
    /\ UNCHANGED <<pager, racers, index, handler, budget, loc, posted>>

\* upsert_into_pinecone_index(pc_index, news_url, title, content_ai, posted_time)
Upsert ==
    /\ pc = "upsert"
    /\ \E ok \in BOOLEAN :
          LET accepted == (cur.verdict = "accept")
              a == Article(Scraper, loc, accepted)
              u == cur.url
              c == [cur EXCEPT !.calls = Called(cur, {"embedding", "upsert"})]
          IN  IF ok
              THEN /\ index' = upsert_into_pinecone_index(index, a["news_url"], a["title"],
                                                          a["content"], a["posted_time"])
                   /\ inv' = [inv EXCEPT !.upserted[u] = @ + 1]
                   /\ cur' = [c EXCEPT !.outcome = "ACCEPTED",
                                       !.collected = @ \/ (Scraper \in ReturnsArticle
                                                           /\ ShouldCollect(accepted))]
                   /\ SetCtl(CandidateDone(
                         IF Scraper \in ReturnsArticle /\ ShouldCollect(accepted)
                         THEN Append(related, a) ELSE related))
              ELSE /\ index' = index
                   /\ inv' = [inv EXCEPT !.fault = TRUE]
                   /\ cur' = Erred(c)
                   /\ SetCtl(Raised(related))
    /\ UNCHANGED <<pager, racers, storeVars, handler, budget, loc, posted, origin>>

WebhookOutcomes == {"200", "non2xx", "unreachable"}

\* A POST made whatever the list holds.
NotifyAlways(all) == TRUE

\* if all_related_articles:
ShouldNotify(all) == all # <<>>

\* A handler that posts again until the webhook answers 200.
RetryUnlessOk(outcome) == IF outcome = "200" THEN "done" ELSE "notify"

\* After the POST the handler logs the response and returns; a POST that
\* raised is caught by the outermost except, which returns too.
AfterWebhook(outcome) == "done"

\* if all_related_articles: requests.post(url, json={"items": ...}); return.
Notify ==
    /\ pc = "notify"
    /\ IF ~ShouldNotify(all_related)
       THEN /\ posted' = posted
            /\ status' = 200
            /\ inv' = inv
            /\ pc' = "done"
       ELSE \E outcome \in WebhookOutcomes :
            /\ posted' = Append(posted, [items |-> all_related, outcome |-> outcome])
            /\ status' = IF outcome = "unreachable" THEN 500 ELSE 200
            /\ inv' = [inv EXCEPT !.fault = @ \/ outcome # "200"]
            /\ pc' = AfterWebhook(outcome)
    /\ UNCHANGED <<pager, racers, storeVars, index, handler, budget, srcIdx, cands, candPos,
                   loc, related, all_related, cur, origin>>

Next ==
    \/ Invoke
    \/ Discover
    \/ Gate
    \/ Fetch
    \/ Relevance
    \/ Similar
    \/ SameCheck
    \/ Rewrite
    \/ Retitle
    \/ Insert
    \/ Upsert
    \/ Notify

Spec == Init /\ [][Next]_vars

\* The same handlers over listings of several candidates.
InitBatch ==
    /\ InitWith(MaxBatch)
    /\ racers = [p \in Racers |-> NoRacer]
    /\ pager = NoPager

SpecBatch == InitBatch /\ [][Next]_vars

(***************************** direct calls ********************************)
\* The articles given to a direct insert call: any content, with or without
\* the optional keys.
SampleContents ==
    {<<"a", " ", "a">>, <<" ", "a", "\n", "\t", "a", " ">>}

InputArticles ==
    {[news_url |-> u] : u \in URLs}
    \cup {[news_url |-> u, content |-> c] :
              u \in URLs, c \in StringsUpTo(MaxLen) \cup SampleContents}
    \cup {[news_url |-> u, content |-> c, is_related |-> TRUE] :
              u \in URLs, c \in SampleContents}

\* DynamoDB.insert called on its own.
StoreInsert ==
    /\ clock < MaxInserts
    /\ \E article \in InputArticles, fault \in PutFaults :
          LET r == insert(table, article, clock + 1, fault)
          IN  /\ table' = r.table
              /\ clock' = clock + 1
              /\ call' = [op |-> "insert", arg |-> article, ret |-> r.ret, log |-> r.log]
    /\ UNCHANGED <<pipeVars, racers, pager>>

NextStore == StoreInsert

\* Direct calls start from the empty table.
InitStore == Init /\ table = {}

SpecStore == InitStore /\ [][NextStore]_vars

(***************************** concurrent runs *****************************)
\* The article run p hands to insert for the URL both runs process: each run
\* has fetched and classified on its own.
RaceTitle == [p \in Racers |-> IF p = 1 THEN <<"T", "1">> ELSE <<"T", "2">>]

RaceArticle(p, accepted) ==
    Article("KTLA", [PriorLocals EXCEPT !.title0 = RaceTitle[p], !.title = RaceTitle[p]],
            accepted)

RaceUrl == PriorArticle["news_url"]

InitRace ==
    /\ InitWith(0)
    /\ pager = NoPager
    /\ \E accepted \in [Racers -> BOOLEAN] :
          racers = [p \in Racers |->
                      [NoRacer EXCEPT !.pc = "gate",
                                      !.article = RaceArticle(p, accepted[p])]]

\* Run p reaches the gate: if self.db.query(news_url): continue
RaceGate(p) ==
    /\ racers[p].pc = "gate"
    /\ \E fault \in GetFaults :
          LET found == query(table, RaceUrl, fault)
          IN  /\ call' = [op |-> "query", arg |-> [news_url |-> RaceUrl], ret |-> found,
                          log |-> IF fault = "error" THEN "error" ELSE "none"]
              /\ racers' = [racers EXCEPT
                    ![p].pc = IF GatePasses(found) THEN "insert" ELSE "skipped",
                    ![p].sawAbsent = ~Has(table, RaceUrl),
                    ![p].early = \A q \in Racers : racers[q].pc # "done"]
    /\ UNCHANGED <<table, clock, pipeVars, pager>>

\* Run p reaches self.db.insert(article).
RaceInsert(p) ==
    /\ racers[p].pc = "insert"
    /\ \E fault \in PutFaults :
          LET r == insert(table, racers[p].article, clock + 1, fault)
          IN  /\ table' = r.table
              /\ clock' = clock + 1
              /\ call' = [op |-> "insert", arg |-> racers[p].article, ret |-> r.ret,
                          log |-> r.log]
              /\ racers' = [racers EXCEPT
                    ![p].pc = "done",
                    ![p].ret = IF r.ret THEN "true" ELSE "false",
                    ![p].err = (fault = "error"),
                    ![p].at = clock + 1]
    /\ UNCHANGED <<pipeVars, pager>>

NextRace == \E p \in Racers : RaceGate(p) \/ RaceInsert(p)

SpecRace == InitRace /\ [][NextRace]_vars

(***************************** listing pages *******************************)
MaxItems == 2        \* candidates a listing page yields
MaxTotalPages == 4   \* largest total_pages a listing reports

\* self.max_pages = 3 of KSBY_Scraper and NBC_Scraper; range(3) of ABC7Scraper.run
MaxPages == [KSBY |-> 3, NBC |-> 3, ABC7 |-> 3]

Paginated == DOMAIN MaxPages

\* A loop bounded by the reported total_pages alone.
TotalPagesOnly(total_pages, max_pages) == total_pages

\* min(total_pages, self.max_pages)
PageBound(total_pages, max_pages) ==
    IF total_pages < max_pages THEN total_pages ELSE max_pages

\* The loop condition of scraper s before page number page is requested.
MorePages(s, page, total_pages) ==
    IF s = "NBC"
    THEN page <= PageBound(total_pages, MaxPages[s])
    ELSE page <= MaxPages[s]

PageOutcomes == {"ok", "non200", "raise"}

\* run() starts: NBC with page = 1, total_pages = 1; KSBY with range(1, 4);
\* ABC7 with range(3), counted here from 1.
InitPages ==
    /\ InitWith(0)
    /\ racers = [p \in Racers |-> NoRacer]
    /\ \E s \in Paginated :
          pager = [NoPager EXCEPT !.scraper = s, !.pc = "loop", !.page = 1,
                                  !.total_pages = 1]

\* The head of the page loop and the listing request of its body.
RequestPage ==
    /\ pager.pc = "loop"
    /\ LET s == pager.scraper
       IN  IF ~MorePages(s, pager.page, pager.total_pages)
           THEN pager' = [pager EXCEPT !.pc = "returned"]
           ELSE \E outcome \in PageOutcomes, total \in 1..MaxTotalPages, n \in 0..MaxItems :
                  LET q == [pager EXCEPT !.requested = @ + 1]
                  IN  CASE outcome = "raise" ->
                             \* requests.get raises: the exception leaves run()
                             pager' = [q EXCEPT !.pc = "raised", !.failed = TRUE]
                        [] outcome = "non200" ->
                             IF s = "ABC7"
                             THEN \* fetch_news_batch does nothing; next batch
                                  pager' = [q EXCEPT !.page = @ + 1, !.failed = TRUE]
                             ELSE \* break
                                  pager' = [q EXCEPT !.pc = "returned", !.failed = TRUE]
                        [] outcome = "ok" ->
                             IF s = "KSBY" /\ n = 0
                             THEN \* if not articles: break
                                  pager' = [q EXCEPT !.pc = "returned", !.failed = TRUE]
                             ELSE pager' = [q EXCEPT
                                     !.pc = "items",
                                     !.items = n,
                                     !.total_pages = IF s = "NBC" THEN total ELSE @]
    /\ UNCHANGED <<storeVars, pipeVars, racers>>

\* One candidate of the page is processed, or the page is exhausted and the
\* loop goes to the next page.
ProcessItem ==
    /\ pager.pc = "items"
    /\ IF pager.items = 0
       THEN pager' = [pager EXCEPT !.pc = "loop", !.page = @ + 1, !.processed = @ + 1]
       ELSE \E raises \in BOOLEAN :
              IF raises /\ pager.scraper \notin PerCandidateTry
              THEN pager' = [pager EXCEPT !.pc = "raised"]
              ELSE pager' = [pager EXCEPT !.items = @ - 1]
    /\ UNCHANGED <<storeVars, pipeVars, racers>>

NextPages == RequestPage \/ ProcessItem

SpecPages == InitPages /\ [][NextPages]_vars /\ WF_vars(NextPages)

(***************************** properties **********************************)
\* The number of whitespace-separated tokens of a string, counted without
\* splitting: the positions where a run of non-whitespace characters starts.
TokenCount(content) ==
    Cardinality({i \in 1..Len(content) :
                    /\ content[i] \notin Whitespace
                    /\ (i = 1 \/ content[i - 1] \in Whitespace)})

ItemsOf(tbl, url) == {item \in tbl : item.news_url = url}

\* The URLs of the articles of a list.
UrlsOf(list) == {list[i]["news_url"] : i \in 1..Len(list)}

\* How many articles of a list carry the URL.
CountIn(list, url) == Cardinality({i \in 1..Len(list) : list[i]["news_url"] = url})

\* The URLs of the items of the webhook POSTs of the running invocation.
PostedUrls == UNION {UrlsOf(posted[i].items) : i \in 1..Len(posted)}

OtherCalls == CallNames \ {"query"}

\* C1: every insert call returns True and adds the item only when no record
\* with that news_url exists; an insert of a stored news_url returns False
\* and leaves the table as it was; the table never holds two records with
\* one news_url.
C1_InsertConditional ==
    [][clock' # clock =>
          LET u == call'.arg["news_url"]
          IN  /\ call'.op = "insert"
              /\ Has(table, u) => (~call'.ret /\ table' = table)
              /\ call'.ret => (~Has(table, u)
                               /\ table' = table \cup {Item(call'.arg, clock')})
              /\ ~call'.ret => table' = table
              /\ \A i, j \in table' : i.news_url = j.news_url => i = j]_vars

\* C1 witness: a second insert of a stored news_url was answered False.
C1_SecondInsertRefused ==
    /\ call.op = "insert"
    /\ call.log = "exists"
    /\ ~call.ret
    /\ Cardinality(ItemsOf(table, call.arg["news_url"])) = 1
    /\ clock = 2

\* C6: the wordcount of every stored record is the number of
\* whitespace-separated tokens of its stored content, 0 for an empty or
\* absent content.
C6_WordcountIsTokenCount ==
    \A item \in table : item.wordcount = TokenCount(item.content)

\* C6 witness: a stored content with leading, trailing and repeated
\* whitespace of several kinds was counted as two tokens.
C6_TwoTokensStored ==
    \E item \in table :
        /\ item.content = <<" ", "a", "\n", "\t", "a", " ">>
        /\ item.wordcount = 2

\* C2 as stated: a candidate whose news_url is in the store when it is
\* reached triggers no fetch, no LLM call, no insert, no upsert, and is not
\* collected for the webhook.
C2_PresentUrlTriggersNothing ==
    cur.present =>
        /\ \A n \in OtherCalls : cur.calls[n] = 0
        /\ ~cur.collected

\* C2 amended: a candidate whose news_url is in the store when it is reached,
\* and whose lookup did not fail with a ClientError, is skipped with no
\* fetch, no LLM call, no insert, no upsert, and is not collected.
C2_PresentUrlSkippedWhenLookupAnswers ==
    (cur.present /\ ~cur.gateErr) =>
        /\ cur.found
        /\ cur.outcome = "SKIPPED_DUPLICATE_URL"
        /\ \A n \in OtherCalls : cur.calls[n] = 0
        /\ ~cur.collected
        /\ pc \in {"gate", "discover", "notify", "done"}

\* C2 witness: the lookup found the candidate's URL and the candidate was
\* skipped.
C2_DuplicateSkipped ==
    /\ cur.present
    /\ ~cur.gateErr
    /\ call.op = "query"
    /\ call.ret
    /\ cur.outcome = "SKIPPED_DUPLICATE_URL"

\* C3: every stored record with is_related false has empty content,
\* call_to_action, title_seo_optimized and one_sentence_description.
C3_RejectedFieldsEmpty ==
    \A item \in table :
        ~item.is_related =>
            /\ item.content = Empty
            /\ item.call_to_action = Empty
            /\ item.title_seo_optimized = Empty
            /\ item.one_sentence_description = Empty

\* C3 witness: a candidate fetched with a non-empty content was rejected and
\* stored with the empty content.
C3_RejectedStored ==
    /\ cur.verdict = "reject"
    /\ cur.insertRet = "true"
    /\ loc.content = RawContent
    /\ \E item \in table :
          /\ item.news_url = cur.url
          /\ ~item.is_related
          /\ item.content = Empty

\* C4 as stated: every stored record with is_related true whose rewrite call
\* returned four non-empty strings has non-empty content, call_to_action,
\* title_seo_optimized and one_sentence_description.
C4_AcceptedFieldsNonEmpty ==
    \A item \in table :
        (item.is_related /\ AllNonEmpty(origin[item.news_url])) =>
            /\ item.content # Empty
            /\ item.call_to_action # Empty
            /\ item.title_seo_optimized # Empty
            /\ item.one_sentence_description # Empty

\* C5: the vector upsert is reached and called for a candidate only if the
\* classifier returned true for it; a rejected candidate has no upsert.
C5_UpsertOnlyWhenAccepted ==
    /\ (pc = "upsert" \/ cur.calls["upsert"] > 0) => cur.verdict = "accept"
    /\ cur.verdict = "reject" => (cur.calls["upsert"] = 0 /\ pc # "upsert")

\* C5 witness: an accepted candidate was upserted under its page id.
C5_AcceptedUpserted ==
    /\ cur.verdict = "accept"
    /\ cur.calls["upsert"] = 1
    /\ \E v \in index : v.id = PageId(cur.url)

\* C7: the classifier returns true exactly when the relevance sub-check
\* returned true and the novelty sub-check reported no existing duplicate;
\* no embedding, vector query or duplicate-check call is made when the
\* relevance sub-check returned false.
C7_RelevantAndNotDuplicate ==
    LET duplicate == /\ cur.matched = "yes"
                     /\ cur.score > ScoreThreshold
                     /\ cur.same = "yes"
    IN  /\ cur.verdict # "none" =>
              ((cur.verdict = "accept") <=> (cur.relevant = "yes" /\ ~duplicate))
        /\ cur.relevant # "yes" =>
              /\ cur.calls["embedding"] = 0
              /\ cur.calls["vquery"] = 0
              /\ cur.calls["samecheck"] = 0
              /\ pc \notin {"similar", "samecheck"}

\* C7 witness: the relevance sub-check answered no and the classifier
\* returned false without a vector query.
C7_IrrelevantRejected ==
    /\ cur.relevant = "no"
    /\ cur.verdict = "reject"
    /\ cur.calls["relevance"] = 1
    /\ cur.calls["vquery"] = 0

\* C8: for a relevant candidate whose URL is not in the store, a top-1 match
\* scoring strictly above the threshold that the duplicate-check LLM calls
\* the same news makes the candidate rejected; with no match, or a top-1
\* score at most the threshold, the duplicate-check LLM is not called and the
\* candidate is accepted as novel.
C8_NoveltyRejection ==
    (cur.relevant = "yes" /\ ~cur.present) =>
        /\ (cur.matched = "yes" /\ cur.score > ScoreThreshold /\ cur.same = "yes")
              => cur.verdict = "reject"
        /\ (cur.matched = "no" \/ (cur.matched = "yes" /\ cur.score <= ScoreThreshold))
              => /\ cur.calls["samecheck"] = 0
                 /\ pc # "samecheck"
                 /\ cur.verdict = "accept"

\* C8 witness: a relevant candidate of a new URL matched a stored vector
\* above the threshold, the LLM called it the same news, and it was rejected.
C8_SimilarRejected ==
    /\ cur.relevant = "yes"
    /\ ~cur.present
    /\ cur.matched = "yes"
    /\ cur.score > ScoreThreshold
    /\ cur.same = "yes"
    /\ cur.verdict = "reject"

\* C9 as stated: when an invocation ends with no external call failed, every
\* accepted candidate of a URL that was not in the store has exactly one
\* record, with is_related true and the four fields the rewriter returned,
\* exactly one upsert under pg-{news_url}, and exactly one item in the one
\* webhook payload.
C9_AcceptedEndToEnd ==
    (pc = "done" /\ ~inv.fault) =>
        \A u \in inv.accepted :
            /\ Cardinality(ItemsOf(table, u)) = 1
            /\ inv.inserted[u] = 1
            /\ \A item \in ItemsOf(table, u) :
                  /\ item.is_related
                  /\ item.content = origin[u].content
                  /\ item.call_to_action = origin[u].call_to_action
                  /\ item.title_seo_optimized = origin[u].title_seo_optimized
                  /\ item.one_sentence_description = origin[u].one_sentence_description
            /\ inv.upserted[u] = 1
            /\ \E v \in index : v.id = PageId(u)
            /\ Len(posted) = 1
            /\ CountIn(posted[1].items, u) = 1

\* C10 as stated: every candidate that passed the gate, was fetched and was
\* rejected by the classifier has, once its insert call is over, exactly one
\* record, with is_related false, and is in no list sent to the webhook.
C10_RejectedPersisted ==
    \A u \in inv.rejected :
        /\ (pc = "insert" /\ cur.url = u)
              \/ /\ Cardinality(ItemsOf(table, u)) = 1
                 /\ \A item \in ItemsOf(table, u) : ~item.is_related
        /\ u \notin UrlsOf(related) \cup UrlsOf(all_related) \cup PostedUrls

\* C10 amended: in an invocation none of whose store calls (lookup, insert)
\* failed, every candidate that passed the gate, was fetched and was rejected
\* by the classifier has, once its insert call is over, exactly one record,
\* put by one insert, with is_related false, and is in no list sent to the
\* webhook by that invocation.
C10_RejectedPersistedWhenStoreAnswers ==
    ~inv.storeFault =>
        \A u \in inv.rejected :
            /\ (pc = "insert" /\ cur.url = u)
                  \/ /\ Cardinality(ItemsOf(table, u)) = 1
                     /\ \A item \in ItemsOf(table, u) : ~item.is_related
                     /\ inv.inserted[u] = 1
            /\ u \notin UrlsOf(related) \cup UrlsOf(all_related) \cup PostedUrls

\* C10 witness: an invocation with no store failure ended having rejected a
\* candidate and stored it, and sent the webhook nothing.
C10_RejectedStoredNotSent ==
    /\ pc = "done"
    /\ ~inv.storeFault
    /\ inv.rejected # {}
    /\ \A u \in inv.rejected : \E item \in table : item.news_url = u /\ ~item.is_related
    /\ posted = <<>>
    /\ status = 200

\* C11 as stated: in every handler, when a scraper's run raises, the source
\* contributes no article to the handler's list and the next source is run:
\* the invocation ends only after every source has returned or failed.
C11_SourceFailureIsolated ==
    cur.escaped =>
        /\ all_related = cur.allBefore
        /\ srcIdx > cur.src
        /\ pc = "done" => srcIdx = Len(Sources) + 1

\* C12 as stated: within one source run, when a classification call or the
\* rewrite call raises for a candidate that is not the last of the listing,
\* the run goes on to the next candidate of the same listing.
C12_CandidateFailureIsolated ==
    LET classifyRaised == cur.verdict = "none" /\ cur.calls["relevance"] = 1
        rewriteRaised  == cur.calls["rewrite"] = 1 /\ cur.rew = NoRewrite
    IN  (cur.outcome = "ERROR" /\ (classifyRaised \/ rewriteRaised) /\ cur.left > 0) =>
            /\ pc = "gate"
            /\ srcIdx = cur.src
            /\ candPos = cur.pos + 1

\* C13: an invocation makes at most one webhook POST; the POST is made only
\* after every source has returned or failed and only with a non-empty
\* list; its items are the handler's accumulated list, all of them accepted
\* articles.
C13_OneWebhookAfterAllSources ==
    /\ Len(posted) <= 1
    /\ posted # <<>> =>
          /\ pc = "done"
          /\ srcIdx = Len(Sources) + 1
          /\ posted[1].items # <<>>
          /\ posted[1].items = all_related
          /\ \A i \in 1..Len(posted[1].items) : posted[1].items[i]["is_related"]

\* C13 witness: the invocation ended having posted its one accepted article.
C13_Posted ==
    /\ pc = "done"
    /\ Len(posted) = 1
    /\ Len(posted[1].items) = 1
    /\ posted[1].outcome = "200"

\* C14: the notification step changes neither the table nor the vector
\* index, whatever the webhook's outcome, and ends the invocation: the POST
\* is not made again.
C14_NotifyLeavesStateAlone ==
    [][/\ pc = "notify" =>
             /\ table' = table
             /\ index' = index
             /\ pc' = "done"
             /\ Len(posted') <= Len(posted) + 1
       /\ pc = "done" => Len(posted') <= Len(posted)]_vars

\* C14 witness: the webhook was unreachable after an article had been stored
\* and indexed, and the invocation ended.
C14_WebhookUnreachable ==
    /\ pc = "done"
    /\ Len(posted) = 1
    /\ posted[1].outcome = "unreachable"
    /\ status = 500
    /\ \E item \in table : item.news_url = cur.url /\ cur.insertRet = "true"
    /\ \E v \in index : v.id = PageId(cur.url)

AfterClassifier == {"rewrite", "retitle", "insert", "upsert"}

\* C15 as stated: a relevance answer other than exactly "yes", and a failed
\* or malformed relevance response, classify the candidate as not related.
C15_RelevanceFailsClosed ==
    cur.answer \notin {"none", "yes"} => cur.verdict = "reject"

\* C16: when the relevance LLM call raises, the exception reaches the
\* scraper: the classifier returns no result, makes no vector query, and no
\* rewrite, insert or upsert is made for the candidate.
C16_RelevanceErrorPropagates ==
    cur.answer = "raise" =>
        /\ cur.outcome = "ERROR"
        /\ cur.verdict = "none"
        /\ cur.relevant = "none"
        /\ \A n \in CallNames \ {"query", "fetch", "relevance"} : cur.calls[n] = 0
        /\ ~cur.collected
        /\ pc \notin {"similar", "samecheck"} \cup AfterClassifier

\* C16 witness: the relevance call of a fetched candidate raised.
C16_RelevanceRaised ==
    /\ cur.answer = "raise"
    /\ cur.calls["fetch"] = 1
    /\ cur.calls["relevance"] = 1
    /\ cur.outcome = "ERROR"

\* C17 as stated: when the similarity lookup of the novelty sub-check fails,
\* the relevant candidate is accepted.
C17_SimilarityFailureAccepts ==
    cur.matched = "failed" => cur.verdict = "accept"

\* C18: the rewrite call is made for a candidate only after the classifier
\* accepted it and at most once; an accepted candidate past the rewrite step
\* has exactly one rewrite call; a rejected or gated candidate has none.
C18_RewriteOncePerAccepted ==
    /\ cur.calls["rewrite"] <= 1
    /\ (pc = "rewrite" \/ cur.calls["rewrite"] > 0) => cur.verdict = "accept"
    /\ (cur.verdict = "accept" /\ pc # "rewrite") => cur.calls["rewrite"] = 1
    /\ (cur.verdict = "reject" \/ cur.found) => (cur.calls["rewrite"] = 0 /\ pc # "rewrite")

\* C18 witness: an accepted candidate was rewritten once, stored and indexed.
C18_AcceptedRewrittenOnce ==
    /\ cur.verdict = "accept"
    /\ cur.calls["rewrite"] = 1
    /\ cur.rew # NoRewrite
    /\ cur.outcome = "ACCEPTED"

BothRaced == \A p \in Racers : racers[p].pc = "done" /\ racers[p].early

OneWinner ==
    /\ Cardinality({p \in Racers : racers[p].ret = "true"}) = 1
    /\ Cardinality({p \in Racers : racers[p].ret = "false"}) = 1
    /\ Cardinality(ItemsOf(table, RaceUrl)) = 1
    /\ \A p \in Racers :
          racers[p].ret = "true" =>
              ItemsOf(table, RaceUrl) = {Item(racers[p].article, racers[p].at)}

\* C19 as stated: when two runs pass the gate for one URL before either
\* inserts, exactly one insert returns True, the other returns False, and the
\* table holds exactly one record for the URL, the winner's.
C19_ExactlyOneWinner == BothRaced => OneWinner

\* C19 amended: when two runs pass the gate for a URL that is not in the
\* store before either inserts, and neither put_item request fails with a
\* service error, exactly one insert returns True, the other returns False,
\* and the table holds exactly one record for the URL, the winner's.
C19_ExactlyOneWinnerWhenStoreAnswers ==
    (BothRaced /\ \A p \in Racers : racers[p].sawAbsent /\ ~racers[p].err) => OneWinner

\* C19 witness: both runs passed the gate with the URL absent, one insert was
\* put and the other was refused by the condition.
C19_SecondRunRefused ==
    /\ BothRaced
    /\ \A p \in Racers : racers[p].sawAbsent /\ ~racers[p].err
    /\ racers[1].ret = "false"
    /\ racers[2].ret = "true"
    /\ call.log = "exists"

\* C20: over any sequence of invocations no stored record is changed or
\* removed: every record of the table is in the table after every step.
C20_WriteOnce ==
    [][\A item \in table : item \in table']_vars

\* C20 witness: a stored URL passed the gate on a failed lookup and reached
\* insert again, which was refused, the prior record staying as it was.
C20_ReinsertRefused ==
    /\ cur.present
    /\ cur.gateErr
    /\ cur.insertRet = "false"
    /\ call.op = "insert"
    /\ call.log = "exists"
    /\ Item(PriorArticle, 1) \in table

\* C21: the gate fails open: when get_item raises a ClientError the lookup
\* answers False without raising, the table is left as it was, and the
\* candidate goes on to the detail fetch.
C21_GateFailsOpen ==
    [][(pc = "gate" /\ cur'.gateErr) =>
          /\ call'.op = "query"
          /\ call'.ret = FALSE
          /\ table' = table
          /\ pc' = "fetch"
          /\ cur'.outcome = "running"]_vars

\* C21 witness: the lookup of a stored URL failed and the candidate is at the
\* detail fetch.
C21_StoredUrlPassedGate ==
    /\ pc = "fetch"
    /\ cur.gateErr
    /\ cur.present
    /\ call.op = "query"
    /\ call.log = "error"
    /\ ~call.ret

\* C22: for each candidate the steps come in the order gate, detail fetch,
\* classify, rewrite (only if accepted), insert, upsert (only if accepted):
\* no step has been made unless the steps before it were, so the insert never
\* precedes the classification or the rewrite and the upsert never precedes
\* the insert call.
C22_StepOrder ==
    /\ cur.calls["fetch"] > 0 => cur.calls["query"] > 0
    /\ cur.calls["relevance"] > 0 => cur.calls["fetch"] > 0
    /\ cur.verdict # "none" => cur.calls["relevance"] > 0
    /\ cur.calls["rewrite"] > 0 => cur.verdict = "accept"
    /\ cur.calls["insert"] > 0 =>
          /\ cur.verdict # "none"
          /\ cur.verdict = "accept" => cur.calls["rewrite"] > 0
    /\ cur.calls["upsert"] > 0 =>
          /\ cur.calls["insert"] > 0
          /\ cur.verdict = "accept"

\* C22 witness: an accepted candidate went through every step.
C22_AllStepsTaken ==
    /\ cur.outcome = "ACCEPTED"
    /\ \A c \in {"query", "fetch", "relevance", "rewrite", "insert", "upsert"} :
          cur.calls[c] = 1

Terminal(c) == c.outcome \notin {"none", "running"}

\* The candidate ended in one of the three terminal states, with the effects
\* each of them names.
InThreeStates(c) ==
    \/ /\ c.outcome = "SKIPPED_DUPLICATE_URL"
       /\ \A n \in OtherCalls : c.calls[n] = 0
    \/ /\ c.outcome = "SKIPPED_NOT_RELATED"
       /\ \E item \in ItemsOf(table, c.url) : ~item.is_related
       /\ ~c.collected
    \/ /\ c.outcome = "ACCEPTED"
       /\ \E item \in ItemsOf(table, c.url) : item.is_related
       /\ \E v \in index : v.id = PageId(c.url)
       /\ c.collected

\* Some external call made for the candidate failed, or its detail page came
\* back without content.
CallFailed(c) ==
    \/ c.gateErr
    \/ c.fetched \notin {"none", "ok"}
    \/ c.outcome = "ERROR"
    \/ c.insertRet = "false"

C24_IndexOnlyAccepted ==
    \A v \in index :
        \E item \in table : v.id = PageId(item.news_url) /\ item.is_related

\* C25: every item of the webhook payload and every vector upsert of an
\* invocation belongs to a news_url whose insert returned True in that
\* invocation: a candidate whose insert returned False is neither indexed nor
\* forwarded to the webhook.
C25_OnlyInsertedIndexedAndSent ==
    /\ \A u \in URLs : inv.upserted[u] > 0 => inv.inserted[u] > 0
    /\ \A u \in PostedUrls : inv.inserted[u] > 0

\* The URLs whose insert returned True in the running invocation with
\* is_related true.
InsertedRelated ==
    {u \in URLs : inv.inserted[u] > 0 /\ \E item \in ItemsOf(table, u) : item.is_related}

\* C26: every article inserted with is_related true during an invocation is
\* among the items of the webhook POST of that invocation, also when a later
\* candidate or a later source raised.
C26_InsertedRelatedAreSent ==
    pc = "done" => InsertedRelated \subseteq PostedUrls

Ended(q) == q.pc \in {"returned", "raised"}

\* What C27 says of every paginated run: at most max_pages listing requests,
\* NBC and KSBY stop on the first failed page, and the run ends.
BoundedPages ==
    /\ [](pager.scraper \in Paginated => pager.requested <= MaxPages[pager.scraper])
    /\ []((pager.scraper \in {"NBC", "KSBY"} /\ pager.failed) => Ended(pager))
    /\ <>Ended(pager)

\* C27 as stated: every source run ends after a bounded number of listing
\* pages: NBC and KSBY process at most 3 pages and stop on the first failed
\* page, and ABC7Scraper.run requests exactly 3 batches.
C27_BoundedPagesExactlyThree ==
    /\ BoundedPages
    /\ []((pager.scraper = "ABC7" /\ Ended(pager)) => pager.requested = MaxPages["ABC7"])

\* C27 amended: every source run ends after a bounded number of listing
\* pages: NBC and KSBY process at most 3 pages and stop on the first failed
\* page, and ABC7Scraper.run requests at most 3 batches, exactly 3 when it
\* returns.
C27_BoundedPagesThreeOnReturn ==
    /\ BoundedPages
    /\ []((pager.scraper = "ABC7" /\ pager.pc = "returned") =>
              pager.requested = MaxPages["ABC7"])

\* C27 witness: the NBC listing reported more pages than max_pages and the run
\* returned after max_pages pages.
C27_NbcStoppedAtMaxPages ==
    /\ pager.scraper = "NBC"
    /\ pager.pc = "returned"
    /\ pager.total_pages > MaxPages["NBC"]
    /\ pager.requested = MaxPages["NBC"]
    /\ pager.processed = MaxPages["NBC"]

\* The control positions at which a call for the current candidate is due.
StepPcs == {"fetch", "relevance", "similar", "samecheck", "rewrite", "retitle",
            "insert", "upsert"}

\* C28: no external call is retried: for a candidate occurrence each of the
\* detail fetch, relevance call, similarity query, duplicate check, rewrite,
\* insert and upsert is made at most once, no call is due once one has
\* failed, and an invocation makes at most one webhook POST.
C28_NoCallRetried ==
    /\ \A c \in CallNames \ {"embedding"} : cur.calls[c] <= 1
    /\ cur.calls["embedding"] <= 2
    /\ pc \in StepPcs => cur.outcome = "running"
    /\ Len(posted) <= 1

\* C28 witness: the rewrite call of a candidate failed and the candidate was
\* left without a second rewrite call and without insert.
C28_RewriteFailedOnce ==
    /\ cur.outcome = "ERROR"
    /\ cur.verdict = "accept"
    /\ cur.calls["rewrite"] = 1
    /\ cur.rew = NoRewrite
    /\ cur.calls["insert"] = 0
    /\ pc \notin StepPcs

\* C29: a failed fetch of a candidate's detail page skips that candidate: it
\* is not classified, not persisted and not indexed, and the scraper goes on
\* with its next candidate.
C29_FetchFailureSkips ==
    cur.fetched = "failed" =>
        /\ cur.calls["relevance"] = 0
        /\ cur.calls["insert"] = 0
        /\ cur.calls["upsert"] = 0
        /\ ~cur.escaped

LlmCalls == {"relevance", "samecheck", "rewrite", "retitle"}

\* The running invocation has inserted nothing, upserted nothing, made no LLM
\* call for the current candidate and sent no webhook POST.
NoEffects ==
    /\ \A u \in URLs : inv.inserted[u] = 0 /\ inv.upserted[u] = 0
    /\ \A c \in LlmCalls : cur.calls[c] = 0
    /\ posted = <<>>

\* C30 as stated: when an invocation completed with no external call failing,
\* the invocation that follows it immediately over the same candidate lists
\* inserts no record, upserts no vector, makes no LLM call and sends no
\* webhook POST.
C30_RerunDoesNothing == inv.rerun => NoEffects

\* C30 amended: when an invocation completed with no external call failing
\* and with every candidate gated or persisted, the invocation that follows
\* it immediately over the same candidate lists, as long as none of its
\* store lookups fails, inserts no record, upserts no vector, makes no LLM
\* call and sends no webhook POST.
C30_RerunDoesNothingWhenGated ==
    (inv.rerun /\ inv.prevStored /\ ~inv.storeFault) => NoEffects

\* C30 witness: the invocation before rejected and stored a candidate, and
\* the invocation over the same lists gated it and returned.
C30_RerunGatedCandidate ==
    /\ inv.rerun
    /\ inv.prevStored
    /\ ~inv.storeFault
    /\ pc = "done"
    /\ status = 200
    /\ Len(inv.lists) = Len(Sources)
    /\ cur.outcome = "SKIPPED_DUPLICATE_URL"
    /\ \E item \in ItemsOf(table, cur.url) : ~item.is_related

====
